---- MODULE Spec2Model ----
(***************************************************************************)
(* Model of src/script.js: the indicator computations (EMA, MACD, RSI,     *)
(* ADX), the two crossover detectors and the refresh pipeline that wires   *)
(* them to the exchange data.                                              *)
(*                                                                         *)
(* JavaScript numbers are modelled as exact rationals extended with NaN,   *)
(* +Infinity and -Infinity; null and undefined are separate values that    *)
(* arithmetic and comparisons coerce as ToNumber does (null -> 0,          *)
(* undefined -> NaN).  Rounding and the sign of zero are not modelled.     *)
(* Arrays are sequences; At(a, i) is the JavaScript read a[i], 0-based,    *)
(* which yields undefined outside the array.                               *)
(***************************************************************************)
EXTENDS Integers, Sequences, FiniteSets, TLC

VARIABLES
    args,            \* arguments of the function under test
    ret,             \* its return value
    locals,          \* the local arrays of the call, as they stand at return
    called,          \* name of the function that has been applied, or "none"
    updateInterval,  \* script.js:197  id of the registered interval, 0 = undefined
    timers,          \* ids of the intervals the browser still fires
    nextTimer,       \* next id setInterval hands out
    inflight,        \* refreshes suspended at `await fetchCryptoData`
    started,         \* number of refreshes started so far
    drawnBy,         \* the refreshes that drew the chart last: at most two, the latest last
    myChart,         \* window.myChart
    lastRun,         \* what the last completed refresh computed
    alerts           \* the alert() messages raised so far

vars == <<args, ret, locals, called, updateInterval, timers, nextTimer,
          inflight, started, drawnBy, myChart, lastRun, alerts>>

pipelineVars == <<updateInterval, timers, nextTimer, inflight, started, drawnBy,
                  myChart, lastRun, alerts>>

harnessVars == <<args, ret, locals, called>>

None == [k |-> "none"]

(***************************************************************************)
(* Numbers                                                                 *)
(***************************************************************************)
NaN == [k |-> "nan", n |-> 0, d |-> 1]

Null == [k |-> "null", n |-> 0, d |-> 1]

Undefined == [k |-> "undef", n |-> 0, d |-> 1]

PosInf == [k |-> "inf", n |-> 1, d |-> 1]

NegInf == [k |-> "inf", n |-> -1, d |-> 1]

AbsInt(x) == IF x < 0 THEN -x ELSE x

SignInt(x) == IF x < 0 THEN -1 ELSE IF x > 0 THEN 1 ELSE 0

RECURSIVE GCD(_, _)
GCD(a, b) == IF b = 0 THEN a ELSE GCD(b, a % b)

\* the rational n/d (d # 0) in lowest terms with a positive denominator
Rat(n, d) ==
    LET g == GCD(AbsInt(n), AbsInt(d))
        s == IF d < 0 THEN -1 ELSE 1
    IN  [k |-> "num", n |-> s * (n \div g), d |-> s * (d \div g)]

Int2Num(i) == [k |-> "num", n |-> i, d |-> 1]

Zero == Int2Num(0)

One == Int2Num(1)

Hundred == Int2Num(100)

\* ToNumber: null -> +0, undefined -> NaN
ToNumber(v) ==
    CASE v.k = "null" -> Zero
      [] v.k = "undef" -> NaN
      [] OTHER -> v

IsNaN(v) == ToNumber(v).k = "nan"

\* sign of a non-NaN number
Sign(v) == SignInt(v.n)

Neg(v) ==
    LET x == ToNumber(v)
    IN  IF x.k = "nan" THEN NaN ELSE [x EXCEPT !.n = -x.n]

\* a + b
Add(a, b) ==
    LET x == ToNumber(a)
        y == ToNumber(b)
    IN  CASE x.k = "nan" \/ y.k = "nan" -> NaN
          [] x.k = "inf" /\ y.k = "inf" -> IF x.n = y.n THEN x ELSE NaN
          [] x.k = "inf" -> x
          [] y.k = "inf" -> y
          [] OTHER ->
               LET g == GCD(x.d, y.d)
                   l == (x.d \div g) * y.d
               IN  Rat(x.n * (l \div x.d) + y.n * (l \div y.d), l)

\* a - b
Sub(a, b) == Add(a, Neg(b))

\* a * b
Mul(a, b) ==
    LET x == ToNumber(a)
        y == ToNumber(b)
    IN  CASE x.k = "nan" \/ y.k = "nan" -> NaN
          [] x.k = "inf" \/ y.k = "inf" ->
               IF Sign(x) * Sign(y) = 0 THEN NaN
               ELSE IF Sign(x) * Sign(y) > 0 THEN PosInf ELSE NegInf
          [] OTHER ->
               LET g1 == GCD(AbsInt(x.n), y.d)
                   g2 == GCD(AbsInt(y.n), x.d)
               IN  Rat((x.n \div g1) * (y.n \div g2), (x.d \div g2) * (y.d \div g1))

\* a / b
Div(a, b) ==
    LET x == ToNumber(a)
        y == ToNumber(b)
    IN  CASE x.k = "nan" \/ y.k = "nan" -> NaN
          [] x.k = "inf" /\ y.k = "inf" -> NaN
          [] x.k = "inf" -> IF Sign(x) * Sign(y) < 0 THEN NegInf ELSE PosInf
          [] y.k = "inf" -> Zero
          [] y.n = 0 -> IF x.n = 0 THEN NaN
                        ELSE IF x.n > 0 THEN PosInf ELSE NegInf
          [] OTHER -> Mul(x, Rat(y.d, y.n))

\* a < b, false when either side is NaN
Lt(a, b) ==
    LET x == ToNumber(a)
        y == ToNumber(b)
    IN  CASE x.k = "nan" \/ y.k = "nan" -> FALSE
          [] x.k = "inf" /\ y.k = "inf" -> x.n < y.n
          [] x.k = "inf" -> x.n < 0
          [] y.k = "inf" -> y.n > 0
          [] OTHER -> Sign(Sub(x, y)) < 0

\* a > b
Gt(a, b) == Lt(b, a)

\* a <= b, false when either side is NaN
Le(a, b) == ~IsNaN(a) /\ ~IsNaN(b) /\ ~Lt(b, a)

\* a >= b
Ge(a, b) == Le(b, a)

\* Math.abs(a)
Abs(a) ==
    LET x == ToNumber(a)
    IN  IF x.k = "nan" THEN NaN ELSE [x EXCEPT !.n = AbsInt(x.n)]

\* Math.max(a, b, c): NaN when any argument is NaN
Max3(a, b, c) ==
    LET x == ToNumber(a)
        y == ToNumber(b)
        z == ToNumber(c)
        m == IF Lt(x, y) THEN y ELSE x
    IN  IF x.k = "nan" \/ y.k = "nan" \/ z.k = "nan" THEN NaN
        ELSE IF Lt(m, z) THEN z ELSE m

(***************************************************************************)
(* Arrays                                                                  *)
(***************************************************************************)
\* a[i] with a 0-based index: undefined outside the array
At(a, i) == IF i >= 0 /\ i < Len(a) THEN a[i + 1] ELSE Undefined

\* a.slice(0, end)
Slice0(a, end) == SubSeq(a, 1, IF end < Len(a) THEN end ELSE Len(a))

\* a.reduce((x, y) => x + y, 0)
RECURSIVE Sum(_)
Sum(a) == IF Len(a) = 0 THEN Zero ELSE Add(Sum(SubSeq(a, 1, Len(a) - 1)), a[Len(a)])

\* all sequences over S of length at most n
SeqUpTo(S, n) == UNION {[1..m -> S] : m \in 0..n}

(***************************************************************************)
(* Locals                                                                  *)
(***************************************************************************)
\* `const x = v; body`: v is evaluated once and body reads the value
Const(v, body(_)) == CHOOSE r \in {body(x) : x \in {v}} : TRUE

(***************************************************************************)
(* calculateEMA                                                            *)
(***************************************************************************)
\* the loop of calculateEMA after i - 1 iterations: emaArray of i elements
RECURSIVE emaLoop(_, _, _)
emaLoop(prices, k, i) ==
    IF i <= 1 THEN <<At(prices, 0)>>
    ELSE Const(emaLoop(prices, k, i - 1), LAMBDA emaArray :
            Append(emaArray,
                   Add(Mul(At(prices, i - 1), k),
                       Mul(At(emaArray, i - 2), Sub(One, k)))))

calculateEMA(prices, length) ==
    Const(prices, LAMBDA p :
    Const(Div(Int2Num(2), Int2Num(length + 1)), LAMBDA k :
        emaLoop(p, k, Len(p))))

(***************************************************************************)
(* calculateMACD                                                           *)
(***************************************************************************)
fastLength == 12

slowLength == 26

signalLength == 9

\* new Date(ms)
NewDate(ms) == [date |-> ms]

closePrices(data) == [j \in 1..Len(data) |-> data[j].close]

calculateMACD(data) ==
    Const(closePrices(data), LAMBDA prices :
    Const(calculateEMA(prices, fastLength), LAMBDA emaFast :
    Const(calculateEMA(prices, slowLength), LAMBDA emaSlow :
    Const([j \in 1..Len(emaFast) |-> Sub(emaFast[j], At(emaSlow, j - 1))], LAMBDA macd :
    Const(calculateEMA(macd, signalLength), LAMBDA signal :
        [time |-> [j \in 1..Len(data) |-> NewDate(data[j].time)],
         macd |-> macd,
         signal |-> signal,
         histogram |-> [j \in 1..Len(macd) |-> Sub(macd[j], At(signal, j - 1))]])))))

(***************************************************************************)
(* calculateRSI                                                            *)
(***************************************************************************)
rsiDefaultLength == 14

\* data[i].close - data[i - 1].close, for the delta at 0-based position j = i - 1
difference(data, j) == Sub(At(data, j + 1).close, At(data, j).close)

gains(data) ==
    [j \in 1..(Len(data) - 1) |->
        IF Ge(difference(data, j - 1), Zero) THEN difference(data, j - 1) ELSE Zero]

losses(data) ==
    [j \in 1..(Len(data) - 1) |->
        IF Ge(difference(data, j - 1), Zero) THEN Zero ELSE Abs(difference(data, j - 1))]

\* gains.slice(0, length).reduce((a, b) => a + b, 0) / length, and the same for losses
average(deltas, length) == Div(Sum(Slice0(deltas, length)), Int2Num(length))

\* ((average * (length - 1)) + current) / length, current = deltas[i]
newAverage(avg, deltas, length, i) ==
    Div(Add(Mul(avg, Int2Num(length - 1)), At(deltas, i)), Int2Num(length))

\* the value pushed by one loop iteration: 100 - (100 / (1 + rs))
rsiValue(newAverageGain, newAverageLoss) ==
    Sub(Hundred, Div(Hundred, Add(One, Div(newAverageGain, newAverageLoss))))

\* the locals of calculateRSI when its loop has ended; newAverageGain and
\* newAverageLoss list the values of the iterations i = length .. data.length - 1
rsiLocals(data, length) ==
    Const(gains(data), LAMBDA g :
    Const(losses(data), LAMBDA l :
    Const(average(g, length), LAMBDA averageGain :
    Const(average(l, length), LAMBDA averageLoss :
        [gains |-> g,
         losses |-> l,
         averageGain |-> averageGain,
         averageLoss |-> averageLoss,
         newAverageGain |-> [j \in 1..(Len(data) - length) |->
                                newAverage(averageGain, g, length, length + j - 1)],
         newAverageLoss |-> [j \in 1..(Len(data) - length) |->
                                newAverage(averageLoss, l, length, length + j - 1)]]))))

\* calculateRSI without the trailing `while` loop that pads the front
calculateRSINoPad(data, length) ==
    Const(rsiLocals(data, length), LAMBDA v :
        [j \in 1..Len(v.newAverageGain) |->
            rsiValue(v.newAverageGain[j], v.newAverageLoss[j])])

\* rsi before the padding, then `while (rsi.length < data.length) rsi.unshift(null)`
calculateRSI(data, length) ==
    Const(rsiLocals(data, length), LAMBDA v :
    Const([j \in 1..Len(v.newAverageGain) |->
              rsiValue(v.newAverageGain[j], v.newAverageLoss[j])], LAMBDA rsi :
        [j \in 1..(Len(data) - Len(rsi)) |-> Null] \o rsi))

(***************************************************************************)
(* calculateADX                                                            *)
(***************************************************************************)
adxDefaultLength == 14

\* plusDM of the loop iteration with index i
rawPlusDM(data, i) == Sub(At(data, i).high, At(data, i - 1).high)

\* minusDM of the loop iteration with index i
rawMinusDM(data, i) == Sub(At(data, i - 1).low, At(data, i).low)

\* plusDM > 0 ? plusDM : 0, the comparison with minusDM dropped
keptPlusDMPositive(plusDM, minusDM) ==
    IF Gt(plusDM, Zero) THEN plusDM ELSE Zero

\* plusDM > minusDM && plusDM > 0 ? plusDM : 0
keptPlusDM(plusDM, minusDM) ==
    IF Gt(plusDM, minusDM) /\ Gt(plusDM, Zero) THEN plusDM ELSE Zero

\* minusDM > plusDM && minusDM > 0 ? minusDM : 0
keptMinusDM(plusDM, minusDM) ==
    IF Gt(minusDM, plusDM) /\ Gt(minusDM, Zero) THEN minusDM ELSE Zero

plusDMs(data) ==
    [j \in 1..(Len(data) - 1) |-> keptPlusDM(rawPlusDM(data, j), rawMinusDM(data, j))]

minusDMs(data) ==
    [j \in 1..(Len(data) - 1) |-> keptMinusDM(rawPlusDM(data, j), rawMinusDM(data, j))]

trueRanges(data) ==
    [j \in 1..(Len(data) - 1) |->
        Max3(Sub(At(data, j).high, At(data, j).low),
             Abs(Sub(At(data, j).high, At(data, j - 1).close)),
             Abs(Sub(At(data, j).low, At(data, j - 1).close)))]

\* (dm / smoothedTrueRanges[i]) * 100 for every smoothed dm
directionalIndex(smoothedDMs, smoothedTrueRanges) ==
    [j \in 1..Len(smoothedDMs) |->
        Mul(Div(smoothedDMs[j], At(smoothedTrueRanges, j - 1)), Hundred)]

\* Math.abs(plusDi - minusDis[i]) / (plusDi + minusDis[i]) * 100
directionalMovementIndex(plusDis, minusDis) ==
    [j \in 1..Len(plusDis) |->
        Mul(Div(Abs(Sub(plusDis[j], At(minusDis, j - 1))),
                Add(plusDis[j], At(minusDis, j - 1))), Hundred)]

calculateADX(data, length) ==
    Const(calculateEMA(plusDMs(data), length), LAMBDA smoothedPlusDMs :
    Const(calculateEMA(minusDMs(data), length), LAMBDA smoothedMinusDMs :
    Const(calculateEMA(trueRanges(data), length), LAMBDA smoothedTrueRanges :
    Const(directionalIndex(smoothedPlusDMs, smoothedTrueRanges), LAMBDA plusDis :
    Const(directionalIndex(smoothedMinusDMs, smoothedTrueRanges), LAMBDA minusDis :
    Const(directionalMovementIndex(plusDis, minusDis), LAMBDA dxs :
        calculateEMA(dxs, length)))))))

(***************************************************************************)
(* detectCrossovers, detectCrossoversWithRSI                               *)
(***************************************************************************)
defaultRsiThreshold == 50

defaultAdxThreshold == 20

\* macd[i] > signal[i] && macd[i - 1] < signal[i - 1], the tie at i - 1 excluded
crossUpStrict(macdData, i) ==
    /\ Gt(At(macdData.macd, i), At(macdData.signal, i))
    /\ Lt(At(macdData.macd, i - 1), At(macdData.signal, i - 1))

\* macd[i] > signal[i] && macd[i - 1] <= signal[i - 1]
crossUp(macdData, i) ==
    /\ Gt(At(macdData.macd, i), At(macdData.signal, i))
    /\ Le(At(macdData.macd, i - 1), At(macdData.signal, i - 1))

\* macd[i] < signal[i] && macd[i - 1] >= signal[i - 1]
crossDown(macdData, i) ==
    /\ Lt(At(macdData.macd, i), At(macdData.signal, i))
    /\ Ge(At(macdData.macd, i - 1), At(macdData.signal, i - 1))

\* { time: macdData.time[i - 1], value: macdData.macd[i - 1] }, off by one
signalAtPrev(macdData, i) ==
    [time |-> At(macdData.time, i - 1), value |-> At(macdData.macd, i - 1)]

\* { time: macdData.time[i], value: macdData.macd[i] }
signalAt(macdData, i) == [time |-> At(macdData.time, i), value |-> At(macdData.macd, i)]

\* one iteration of the loop of detectCrossovers on the lists built so far
detectStep(macdData, i, prev) ==
    IF crossUp(macdData, i)
    THEN [prev EXCEPT !.buySignals = Append(@, signalAt(macdData, i))]
    ELSE IF crossDown(macdData, i)
    THEN [prev EXCEPT !.sellSignals = Append(@, signalAt(macdData, i))]
    ELSE prev

\* the loop of detectCrossovers once the iterations 1 .. i have run
RECURSIVE detectLoop(_, _)
detectLoop(macdData, i) ==
    IF i < 1 THEN [buySignals |-> <<>>, sellSignals |-> <<>>]
    ELSE Const(detectLoop(macdData, i - 1), LAMBDA prev : detectStep(macdData, i, prev))

detectCrossovers(macdData) ==
    Const(macdData, LAMBDA m : detectLoop(m, Len(m.macd) - 1))

\* the buy condition with adxData[i] >= adxThreshold
buyGateAdxGe(macdData, rsiData, adxData, rsiThreshold, adxThreshold, i) ==
    /\ crossUp(macdData, i)
    /\ Lt(At(rsiData, i), rsiThreshold)
    /\ Ge(At(adxData, i), adxThreshold)

\* the buy condition without the ADX gate
buyGateNoAdx(macdData, rsiData, adxData, rsiThreshold, adxThreshold, i) ==
    /\ crossUp(macdData, i)
    /\ Lt(At(rsiData, i), rsiThreshold)

\* the buy condition of detectCrossoversWithRSI at index i
buyGate(macdData, rsiData, adxData, rsiThreshold, adxThreshold, i) ==
    /\ crossUp(macdData, i)
    /\ Lt(At(rsiData, i), rsiThreshold)
    /\ Gt(At(adxData, i), adxThreshold)

\* the sell condition of detectCrossoversWithRSI at index i
sellGate(macdData, rsiData, adxData, rsiThreshold, adxThreshold, i) ==
    /\ crossDown(macdData, i)
    /\ Gt(At(rsiData, i), rsiThreshold)
    /\ Gt(At(adxData, i), adxThreshold)

\* one iteration of the loop of detectCrossoversWithRSI on the lists built so far
detectRSIStep(macdData, rsiData, adxData, rsiThreshold, adxThreshold, i, prev) ==
    IF buyGate(macdData, rsiData, adxData, rsiThreshold, adxThreshold, i)
    THEN [prev EXCEPT !.buySignals = Append(@, signalAt(macdData, i))]
    ELSE IF sellGate(macdData, rsiData, adxData, rsiThreshold, adxThreshold, i)
    THEN [prev EXCEPT !.sellSignals = Append(@, signalAt(macdData, i))]
    ELSE prev

\* the loop of detectCrossoversWithRSI once the iterations 1 .. i have run
RECURSIVE detectRSILoop(_, _, _, _, _, _)
detectRSILoop(macdData, rsiData, adxData, rsiThreshold, adxThreshold, i) ==
    IF i < 1 THEN [buySignals |-> <<>>, sellSignals |-> <<>>]
    ELSE Const(detectRSILoop(macdData, rsiData, adxData, rsiThreshold, adxThreshold, i - 1),
               LAMBDA prev : detectRSIStep(macdData, rsiData, adxData,
                                           rsiThreshold, adxThreshold, i, prev))

detectCrossoversWithRSI(macdData, rsiData, adxData, rsiThreshold, adxThreshold) ==
    Const(macdData, LAMBDA m :
    Const(rsiData, LAMBDA r :
    Const(adxData, LAMBDA a :
        detectRSILoop(m, r, a, rsiThreshold, adxThreshold, Len(m.macd) - 1))))

(***************************************************************************)
(* Bounds and input sets                                                   *)
(***************************************************************************)
MaxPrices == 3

MaxLength == 2

MaxCloses == 5

MaxBars == 3

MaxLen == 4

RichLen == 2

PriceValues == {Int2Num(1), Int2Num(2), Int2Num(4), NaN}

CloseValues == {Int2Num(1), Int2Num(2), Int2Num(3)}

\* a candle as fetchCryptoData builds it: no high, no low
closeCandle(t, c) == [time |-> t, close |-> c, high |-> Undefined, low |-> Undefined]

\* candle times: one minute apart
timeOf(j) == 60000 * j

HighLow == {<<Int2Num(2), Int2Num(0)>>, <<Int2Num(2), Int2Num(1)>>,
            <<Int2Num(3), Int2Num(0)>>, <<Int2Num(3), Int2Num(1)>>,
            <<Undefined, Undefined>>}

BarCloses == {Int2Num(1), Int2Num(2)}

pipelineIdle ==
    /\ updateInterval = 0
    /\ timers = {}
    /\ nextTimer = 1
    /\ inflight = {}
    /\ started = 0
    /\ drawnBy = <<>>
    /\ myChart = None
    /\ lastRun = None
    /\ alerts = {}

harnessStart ==
    /\ ret = None
    /\ locals = None
    /\ called = "none"
    /\ pipelineIdle

(***************************************************************************)
(* calculateEMA applied to every bounded input                             *)
(***************************************************************************)
InitEMA ==
    /\ \E prices \in SeqUpTo(PriceValues, MaxPrices), length \in 1..MaxLength :
          args = [prices |-> prices, length |-> length]
    /\ harnessStart

CallCalculateEMA ==
    /\ called = "none"
    /\ ret' = calculateEMA(args.prices, args.length)
    /\ locals' = None
    /\ called' = "calculateEMA"
    /\ UNCHANGED <<args, pipelineVars>>

SpecEMA == InitEMA /\ [][CallCalculateEMA]_vars

(***************************************************************************)
(* calculateRSI applied to every bounded input                             *)
(***************************************************************************)
InitRSI ==
    /\ \E closes \in SeqUpTo(CloseValues, MaxCloses), length \in 1..MaxLength :
          args = [data |-> [j \in 1..Len(closes) |-> closeCandle(timeOf(j), closes[j])],
                  length |-> length]
    /\ harnessStart

CallCalculateRSI ==
    /\ called = "none"
    /\ ret' = calculateRSI(args.data, args.length)
    /\ locals' = rsiLocals(args.data, args.length)
    /\ called' = "calculateRSI"
    /\ UNCHANGED <<args, pipelineVars>>

SpecRSI == InitRSI /\ [][CallCalculateRSI]_vars

(***************************************************************************)
(* calculateADX applied to every bounded input                             *)
(***************************************************************************)
InitADX ==
    /\ \E n \in 0..MaxBars, length \in 1..MaxLength :
          \E hl \in [1..n -> HighLow], closes \in [1..n -> BarCloses] :
             args = [data |-> [j \in 1..n |->
                                  [time |-> timeOf(j), close |-> closes[j],
                                   high |-> hl[j][1], low |-> hl[j][2]]],
                     length |-> length]
    /\ harnessStart

CallCalculateADX ==
    /\ called = "none"
    /\ ret' = calculateADX(args.data, args.length)
    /\ locals' = [plusDMs |-> plusDMs(args.data),
                  minusDMs |-> minusDMs(args.data),
                  trueRanges |-> trueRanges(args.data)]
    /\ called' = "calculateADX"
    /\ UNCHANGED <<args, pipelineVars>>

SpecADX == InitADX /\ [][CallCalculateADX]_vars

(***************************************************************************)
(* detectCrossovers and detectCrossoversWithRSI on every bounded input     *)
(***************************************************************************)
MacdValues == {Int2Num(-1), Int2Num(0), Int2Num(1)}

\* short inputs draw every series from its full value set
RichRsi == {Null, Int2Num(50), Int2Num(60)}

RichAdx == {Null, NaN, Int2Num(20), Int2Num(30)}

RichThresholds == {<<Int2Num(defaultRsiThreshold), Int2Num(defaultAdxThreshold)>>,
                   <<Int2Num(40), Int2Num(0)>>}

\* longer inputs: macd may be NaN, signal, rsi and adx are constant series
LeanMacd == MacdValues \cup {NaN}

LeanSignal == {Int2Num(0), Int2Num(1)}

LeanRsi == {Int2Num(40), Int2Num(60)}

bundle(macd, signal) ==
    [time |-> [j \in 1..Len(macd) |-> NewDate(timeOf(j))],
     macd |-> macd,
     signal |-> signal,
     histogram |-> [j \in 1..Len(macd) |-> Sub(macd[j], signal[j])]]

InitDetectRich ==
    \E n \in 0..RichLen :
       \E macd \in [1..n -> MacdValues], rsi \in [1..n -> RichRsi],
          adx \in [1..n -> RichAdx], th \in RichThresholds :
          args = [macdData |-> bundle(macd, [j \in 1..n |-> Zero]),
                  rsiData |-> rsi,
                  adxData |-> adx,
                  rsiThreshold |-> th[1],
                  adxThreshold |-> th[2]]

InitDetectLean ==
    \E n \in (RichLen + 1)..MaxLen :
       \E macd \in [1..n -> LeanMacd], s \in LeanSignal,
          r \in LeanRsi, m \in {n - 1, n} :
          args = [macdData |-> bundle(macd, [j \in 1..n |-> s]),
                  rsiData |-> [j \in 1..n |-> r],
                  adxData |-> [j \in 1..m |-> Int2Num(30)],
                  rsiThreshold |-> Int2Num(defaultRsiThreshold),
                  adxThreshold |-> Int2Num(defaultAdxThreshold)]

InitDetect ==
    /\ InitDetectRich \/ InitDetectLean
    /\ harnessStart

CallDetectCrossovers ==
    /\ called = "none"
    /\ ret' = detectCrossovers(args.macdData)
    /\ locals' = None
    /\ called' = "detectCrossovers"
    /\ UNCHANGED <<args, pipelineVars>>

CallDetectCrossoversWithRSI ==
    /\ called = "none"
    /\ ret' = detectCrossoversWithRSI(args.macdData, args.rsiData, args.adxData,
                                      args.rsiThreshold, args.adxThreshold)
    /\ locals' = None
    /\ called' = "detectCrossoversWithRSI"
    /\ UNCHANGED <<args, pipelineVars>>

NextDetect == CallDetectCrossovers \/ CallDetectCrossoversWithRSI

SpecDetect == InitDetect /\ [][NextDetect]_vars

(***************************************************************************)
(* The page: form submission, the refresh timer, the refresh pipeline      *)
(***************************************************************************)
MaxCandles == 2

MaxRefresh == 5

\* parseFloat on the strings the model's responses carry
parseFloat(str) ==
    CASE str = "0" -> Int2Num(0)
      [] str = "1" -> Int2Num(1)
      [] str = "2" -> Int2Num(2)
      [] str = "3" -> Int2Num(3)
      [] OTHER -> NaN

CloseStrings == {"1", "2"}

\* a kline row of the exchange: [openTime, open, high, low, close]
kline(t, c) == <<t, c, "3", "0", c>>

Responses ==
    {[kind |-> "reject", ok |-> FALSE, rows |-> <<>>],
     [kind |-> "status", ok |-> FALSE, rows |-> <<>>]}
    \cup {[kind |-> "json", ok |-> TRUE,
           rows |-> [j \in 1..Len(cs) |-> kline(timeOf(j), cs[j])]] :
          cs \in SeqUpTo(CloseStrings, MaxCandles)}

\* the value fetchCryptoData resolves to
fetchCryptoData(response) ==
    IF ~response.ok THEN <<>>
    ELSE [j \in 1..Len(response.rows) |->
             [time |-> response.rows[j][1],
              close |-> parseFloat(response.rows[j][5]),
              high |-> Undefined,
              low |-> Undefined]]

\* the alert fetchCryptoData raises
fetchAlerts(response) ==
    IF ~response.ok THEN {"Error fetching data. Please check your API key and parameters."}
    ELSE {}

\* the alerts notifySignals raises
notifySignals(crossovers) ==
    (IF Len(crossovers.buySignals) > 0 THEN {"Buy Signal Detected"} ELSE {})
    \cup (IF Len(crossovers.sellSignals) > 0 THEN {"Sell Signal Detected"} ELSE {})

\* window.myChart after updateChart(macdData, rsiData, crossovers)
updateChart(macdData, crossovers) ==
    [labels |-> macdData.time,
     macd |-> macdData.macd,
     annotations |-> crossovers.buySignals \o crossovers.sellSignals,
     destroyed |-> FALSE]

\* everything updateChartPeriodically computes after the fetch
refresh(data) ==
    Const(calculateMACD(data), LAMBDA macdData :
    Const(calculateRSI(data, rsiDefaultLength), LAMBDA rsiData :
    Const(calculateADX(data, adxDefaultLength), LAMBDA adxData :
    Const(detectCrossoversWithRSI(macdData, rsiData, adxData,
                                  Int2Num(defaultRsiThreshold),
                                  Int2Num(defaultAdxThreshold)), LAMBDA crossovers :
        [kind |-> "periodic", data |-> data, macdData |-> macdData,
         rsiData |-> rsiData, adxData |-> adxData, crossovers |-> crossovers]))))

\* refresh(fetchCryptoData(response)) for every response, evaluated once
refreshOf == [response \in Responses |-> refresh(fetchCryptoData(response))]

Init ==
    /\ args = None
    /\ harnessStart

\* the synchronous start of updateChartPeriodically, up to its await; timer is
\* the interval that fired it, 0 for the direct call of startAutoUpdate
startRefresh(pending, id, timer) ==
    pending \cup {[id |-> id, kind |-> "periodic", timer |-> timer]}

\* startAutoUpdate without the cancellation of the previous interval
clearIntervalNoop(active, id) == active

\* if (updateInterval) { clearInterval(updateInterval); }
clearInterval(active, id) == active \ {id}

\* a submit event: the first listener starts its own fetch, the second calls startAutoUpdate
Submit ==
    /\ started + 2 <= MaxRefresh
    /\ inflight' = startRefresh(inflight \cup {[id |-> started + 1, kind |-> "submit",
                                                timer |-> 0]},
                                started + 2, 0)
    /\ started' = started + 2
    /\ timers' = clearInterval(timers, updateInterval) \cup {nextTimer}
    /\ updateInterval' = nextTimer
    /\ nextTimer' = nextTimer + 1
    /\ UNCHANGED <<harnessVars, drawnBy, myChart, lastRun, alerts>>

\* an interval fires updateChartPeriodically
Tick ==
    /\ started + 1 <= MaxRefresh
    /\ \E t \in timers :
          /\ inflight' = startRefresh(inflight, started + 1, t)
          /\ started' = started + 1
    /\ UNCHANGED <<harnessVars, updateInterval, timers, nextTimer, drawnBy,
                   myChart, lastRun, alerts>>

\* drawnBy once refresh r has created the chart
drew(history, r) ==
    IF Len(history) = 0 THEN <<r>> ELSE <<history[Len(history)], r>>

\* the fetch of a periodic refresh settles and updateChartPeriodically runs to its end
FinishRefresh ==
    \E r \in inflight, response \in Responses :
       /\ r.kind = "periodic"
       /\ inflight' = inflight \ {r}
       /\ \E data \in {fetchCryptoData(response)} :
              IF response.kind = "reject"
              THEN UNCHANGED <<drawnBy, myChart, lastRun, alerts>>
              ELSE IF Len(data) = 0
              THEN /\ alerts' = alerts \cup fetchAlerts(response)
                                \cup {"No data returned. Please check your API key and parameters."}
                   /\ UNCHANGED <<drawnBy, myChart, lastRun>>
              ELSE \E run \in {refreshOf[response]} :
                      /\ lastRun' = run
                      /\ myChart' = updateChart(run.macdData, run.crossovers)
                      /\ alerts' = alerts \cup notifySignals(run.crossovers)
                      /\ drawnBy' = drew(drawnBy, r)
       /\ UNCHANGED <<harnessVars, updateInterval, timers, nextTimer, started>>

\* the fetch of the first submit listener settles: updateChart(macdData) is the
\* three-argument updateChart, which destroys the chart and then throws on
\* crossovers.buySignals
FinishSubmit ==
    \E r \in inflight, response \in Responses :
       /\ r.kind = "submit"
       /\ inflight' = inflight \ {r}
       /\ \E data \in {fetchCryptoData(response)} :
              IF response.kind = "reject"
              THEN UNCHANGED <<myChart, alerts>>
              ELSE IF Len(data) = 0
              THEN /\ alerts' = alerts \cup fetchAlerts(response)
                                \cup {"No data returned. Please check your API key and parameters."}
                   /\ UNCHANGED myChart
              ELSE /\ myChart' = IF myChart = None THEN None
                                 ELSE [myChart EXCEPT !.destroyed = TRUE]
                   /\ UNCHANGED alerts
       /\ UNCHANGED <<harnessVars, updateInterval, timers, nextTimer, started, drawnBy, lastRun>>

Next == Submit \/ Tick \/ FinishRefresh \/ FinishSubmit

Spec == Init /\ [][Next]_vars

(***************************************************************************)
(* Properties                                                              *)
(***************************************************************************)
\* macd[i-1] <= signal[i-1] and macd[i] > signal[i], for an index i >= 1
upwardCross(m, i) ==
    /\ i >= 1
    /\ Le(At(m.macd, i - 1), At(m.signal, i - 1))
    /\ Gt(At(m.macd, i), At(m.signal, i))

\* macd[i-1] >= signal[i-1] and macd[i] < signal[i], for an index i >= 1
downwardCross(m, i) ==
    /\ i >= 1
    /\ Ge(At(m.macd, i - 1), At(m.signal, i - 1))
    /\ Lt(At(m.macd, i), At(m.signal, i))

\* the positions of `list` that hold a signal for index i
signalsFor(list, m, i) == {p \in 1..Len(list) : list[p].time = At(m.time, i)}

\* every signal of `list` belongs to an index of the bundle, and no index has two
wellIndexed(list, m) ==
    /\ \A p \in 1..Len(list) : \E i \in 0..(Len(m.macd) - 1) : list[p].time = At(m.time, i)
    /\ \A i \in 0..(Len(m.macd) - 1) : Cardinality(signalsFor(list, m, i)) <= 1

exampleMacd == <<Int2Num(-1), Int2Num(-1), Int2Num(1), Int2Num(1)>>

exampleSignal == <<Zero, Zero, Zero, Zero>>

\* C1: detectCrossovers puts a signal for index i in buySignals exactly when
\* macd[i-1] <= signal[i-1] and macd[i] > signal[i], in sellSignals exactly when
\* macd[i-1] >= signal[i-1] and macd[i] < signal[i]; never for index 0, never
\* in both lists; macd=[-1,-1,1,1], signal=[0,0,0,0] gives one buy, at index 2.
C1_Crossovers ==
    called = "detectCrossovers" =>
        LET m == args.macdData
        IN  /\ wellIndexed(ret.buySignals, m)
            /\ wellIndexed(ret.sellSignals, m)
            /\ \A i \in 0..(Len(m.macd) - 1) :
                  /\ signalsFor(ret.buySignals, m, i) # {} <=> upwardCross(m, i)
                  /\ signalsFor(ret.sellSignals, m, i) # {} <=> downwardCross(m, i)
                  /\ ~(signalsFor(ret.buySignals, m, i) # {}
                       /\ signalsFor(ret.sellSignals, m, i) # {})
            /\ signalsFor(ret.buySignals, m, 0) = {}
            /\ signalsFor(ret.sellSignals, m, 0) = {}
            /\ (m.macd = exampleMacd /\ m.signal = exampleSignal) =>
                  /\ ret.buySignals = <<[time |-> At(m.time, 2), value |-> Int2Num(1)]>>
                  /\ ret.sellSignals = <<>>

C1_Witness ==
    /\ called = "detectCrossovers"
    /\ args.macdData.macd = exampleMacd
    /\ args.macdData.signal = exampleSignal
    /\ Len(ret.buySignals) = 1
    /\ ret.buySignals[1].time = NewDate(timeOf(3))

\* adx[i] <= adxThreshold, or adx[i] is null, NaN or missing
adxTooLow(adxData, adxThreshold, i) ==
    \/ Le(At(adxData, i), adxThreshold)
    \/ At(adxData, i).k \in {"null", "nan", "undef"}

\* every signal of `sub` is a signal of `list`
signalSubset(sub, list) ==
    \A p \in 1..Len(sub) : \E q \in 1..Len(list) : sub[p] = list[q]

C3_EmaLength ==
    called = "calculateEMA" =>
        /\ Len(ret) = Len(args.prices)
        /\ Len(args.prices) = 0 => ret = <<>>
        /\ Len(args.prices) = 1 => ret = <<args.prices[1]>>
        /\ Len(args.prices) >= 1 => ret[1] = args.prices[1]

\* C4: calculateADX returns one entry per candle, the warm-up entries null,
\* so that adx[i] belongs to the candle of macd[i] and rsi[i].
C4_AdxLength ==
    called = "calculateADX" => Len(ret) = Len(args.data)

\* the smaller of two integers
MinInt(a, b) == IF a < b THEN a ELSE b

\* C5: calculateRSI returns one entry per candle, null at the indices
\* 0 .. min(L, n) - 1, and all null when n <= L.
C5_RsiLength ==
    called = "calculateRSI" =>
        LET n == Len(args.data)
        IN  /\ Len(ret) = n
            /\ \A i \in 0..(MinInt(args.length, n) - 1) : At(ret, i) = Null
            /\ n <= args.length => \A i \in 0..(n - 1) : At(ret, i) = Null

\* more candles than the warm-up: a null prefix of L entries, then values
C5_Witness ==
    /\ called = "calculateRSI"
    /\ Len(args.data) > args.length + 1
    /\ At(ret, args.length - 1) = Null
    /\ At(ret, args.length) # Null

strictlyIncreasingCloses(data) ==
    \A j \in 1..(Len(data) - 1) : Lt(data[j].close, data[j + 1].close)

\* C6: for strictly increasing closes and n > L, every entry of calculateRSI
\* at an index L .. n-1, the last one included, is 100.
C6_RsiSaturates ==
    (called = "calculateRSI" /\ strictlyIncreasingCloses(args.data)
        /\ Len(args.data) > args.length) =>
        \A i \in args.length..(Len(args.data) - 1) : At(ret, i) = Hundred

\* C7: the plusDM and minusDM recorded for a bar are never both nonzero:
\* plusDM is kept only when positive and greater than minusDM, minusDM only
\* when positive and greater than plusDM; equal or non-numeric movements
\* record 0 for both.
C7_DirectionalMovement ==
    called = "calculateADX" =>
        \A i \in 1..(Len(args.data) - 1) :
            LET plusDM == Sub(At(args.data, i).high, At(args.data, i - 1).high)
                minusDM == Sub(At(args.data, i - 1).low, At(args.data, i).low)
                keptPlus == At(locals.plusDMs, i - 1)
                keptMinus == At(locals.minusDMs, i - 1)
            IN  /\ ~(keptPlus # Zero /\ keptMinus # Zero)
                /\ keptPlus # Zero => (keptPlus = plusDM /\ Gt(plusDM, Zero)
                                       /\ Gt(plusDM, minusDM))
                /\ keptMinus # Zero => (keptMinus = minusDM /\ Gt(minusDM, Zero)
                                        /\ Gt(minusDM, plusDM))
                /\ (Gt(plusDM, Zero) /\ Gt(plusDM, minusDM)) => keptPlus = plusDM
                /\ (Gt(minusDM, Zero) /\ Gt(minusDM, plusDM)) => keptMinus = minusDM
                /\ (plusDM = minusDM \/ IsNaN(plusDM) \/ IsNaN(minusDM)) =>
                      (keptPlus = Zero /\ keptMinus = Zero)

\* a bar whose high rises as much as its low falls: both movements recorded as 0
C7_Witness ==
    /\ called = "calculateADX"
    /\ \E i \in 1..(Len(args.data) - 1) :
          /\ Sub(At(args.data, i).high, At(args.data, i - 1).high) = One
          /\ Sub(At(args.data, i - 1).low, At(args.data, i).low) = One
          /\ At(locals.plusDMs, i - 1) = Zero
          /\ At(locals.minusDMs, i - 1) = Zero

strictlyIncreasingTimes(m) ==
    \A j \in 1..(Len(m.time) - 1) : m.time[j].date < m.time[j + 1].date

\* C8: with strictly increasing candle times, buySignals and sellSignals of
\* both detectors are in strictly ascending time order and every signal
\* carries time[i] and macd[i] of the index i whose crossover it reports.
C8_SignalOrder ==
    (called \in {"detectCrossovers", "detectCrossoversWithRSI"}
        /\ strictlyIncreasingTimes(args.macdData)) =>
        LET m == args.macdData
        IN  /\ \A p \in 1..(Len(ret.buySignals) - 1) :
                  ret.buySignals[p].time.date < ret.buySignals[p + 1].time.date
            /\ \A p \in 1..(Len(ret.sellSignals) - 1) :
                  ret.sellSignals[p].time.date < ret.sellSignals[p + 1].time.date
            /\ \A p \in 1..Len(ret.buySignals) :
                  \E i \in 1..(Len(m.macd) - 1) :
                     /\ upwardCross(m, i)
                     /\ ret.buySignals[p] = [time |-> At(m.time, i), value |-> At(m.macd, i)]
            /\ \A p \in 1..Len(ret.sellSignals) :
                  \E i \in 1..(Len(m.macd) - 1) :
                     /\ downwardCross(m, i)
                     /\ ret.sellSignals[p] = [time |-> At(m.time, i), value |-> At(m.macd, i)]

\* the filtered detector returns two buys, at indices 1 and 3, and the
\* unfiltered one a sell between them
C8_Witness ==
    /\ called = "detectCrossoversWithRSI"
    /\ Len(ret.buySignals) = 2
    /\ ret.buySignals[1].time = At(args.macdData.time, 1)
    /\ ret.buySignals[2].time = At(args.macdData.time, 3)
    /\ Len(detectCrossovers(args.macdData).sellSignals) = 1

\* C9: the averages of calculateRSI are carried forward: the first iteration
\* smooths the simple mean of the first L gains (losses), and every later
\* iteration i > L smooths the average the iteration i - 1 produced.
C9_RsiRecursive ==
    called = "calculateRSI" =>
        LET L == args.length
            smooth(prev, deltas, i) ==
                Div(Add(Mul(prev, Int2Num(L - 1)), At(deltas, i)), Int2Num(L))
            mean(deltas) == Div(Sum(Slice0(deltas, L)), Int2Num(L))
        IN  \A j \in 1..Len(locals.newAverageGain) :
               /\ locals.newAverageGain[j] =
                     smooth(IF j = 1 THEN mean(locals.gains)
                            ELSE locals.newAverageGain[j - 1], locals.gains, L + j - 1)
               /\ locals.newAverageLoss[j] =
                     smooth(IF j = 1 THEN mean(locals.losses)
                            ELSE locals.newAverageLoss[j - 1], locals.losses, L + j - 1)

\* C10: a refresh works on candles without high and low, so every true range
\* and every ADX value is NaN, adx[i] > 20 holds at no index, both signal
\* lists are empty and no buy or sell alert is ever raised.
C10_NoSignals ==
    /\ "Buy Signal Detected" \notin alerts
    /\ "Sell Signal Detected" \notin alerts
    /\ lastRun # None =>
          /\ \A j \in 1..Len(lastRun.data) :
                lastRun.data[j].high = Undefined /\ lastRun.data[j].low = Undefined
          /\ \A j \in 1..(Len(lastRun.data) - 1) : IsNaN(trueRanges(lastRun.data)[j])
          /\ \A j \in 1..Len(lastRun.adxData) : IsNaN(lastRun.adxData[j])
          /\ \A i \in 0..(Len(lastRun.data) - 1) :
                ~Gt(At(lastRun.adxData, i), Int2Num(defaultAdxThreshold))
          /\ lastRun.crossovers.buySignals = <<>>
          /\ lastRun.crossovers.sellSignals = <<>>

\* a refresh whose MACD crosses upward with the RSI gate open, and no signal
C10_Witness ==
    /\ lastRun # None
    /\ \E i \in 1..(Len(lastRun.data) - 1) :
          /\ upwardCross(lastRun.macdData, i)
          /\ Lt(At(lastRun.rsiData, i), Int2Num(defaultRsiThreshold))
    /\ lastRun.crossovers.buySignals = <<>>
    /\ myChart # None
    /\ myChart.annotations = <<>>

\* the refreshes a step starts
startedBy(before, after) == {r \in after \ before : r.kind = "periodic"}

\* a step that calls startAutoUpdate starts exactly one refresh, the immediate
\* one; any other step starts refreshes only from the registered interval
oneRefreshPerCall ==
    IF updateInterval' # updateInterval
    THEN /\ Cardinality(startedBy(inflight, inflight')) = 1
         /\ \A r \in startedBy(inflight, inflight') : r.timer = 0
         /\ timers' = {updateInterval'}
    ELSE /\ Cardinality(startedBy(inflight, inflight')) <= 1
         /\ \A r \in startedBy(inflight, inflight') :
               r.timer = updateInterval /\ r.timer # 0

\* C11: after any sequence of form submissions at most one interval is active,
\* the one startAutoUpdate registered last; each call of startAutoUpdate starts
\* exactly one immediate refresh, and every later refresh is started by that
\* one surviving interval, never by a cancelled one.
C11_SingleTimer ==
    /\ [](/\ Cardinality(timers) <= 1
          /\ timers \subseteq {updateInterval}
          /\ updateInterval = nextTimer - 1)
    /\ [][oneRefreshPerCall]_vars

\* a refresh fired by an interval that has since been cancelled draws the chart
\* after the immediate refresh of the later submission has drawn it
C11_Witness ==
    /\ Len(drawnBy) = 2
    /\ drawnBy[2].timer # 0
    /\ drawnBy[2].timer # updateInterval
    /\ drawnBy[2].timer \notin timers
    /\ drawnBy[1].timer = 0
    /\ drawnBy[1].id > drawnBy[2].id
    /\ Cardinality(timers) = 1
    /\ myChart # None
    /\ ~myChart.destroyed

====
